---- MODULE Spec2Model ----
(***************************************************************************)
(* Model of src/knn_dtw_class.py: class KnnDtw, a k-nearest-neighbour      *)
(* classifier whose distance is dynamic time warping (DTW).                *)
(*                                                                         *)
(* Conventions.  A time series is a TLA+ sequence (1-based), so the code's *)
(* ts_a[i] is ts_a[i+1] here; matrices keep the code's 0-based indices and *)
(* are functions [0..M-1 -> [0..N-1 -> Int]].  Observations are scalars.   *)
(* The code is Python 2 (xrange, print statement, sys.maxint).             *)
(***************************************************************************)
EXTENDS Integers, Sequences, FiniteSets, TLC

VARIABLES
    n_neighbors,         \* self.n_neighbors
    max_warping_window,  \* self.max_warping_window
    subsample_step,      \* self.subsample_step
    fitted,              \* TRUE once fit() has bound self.x and self.l
    x,                   \* self.x : the training series
    l,                   \* self.l : the training labels
    op,                  \* the method of the current call frame
    pc,                  \* position in that frame: "loop" or "done"
    args,                \* the arguments the method was called with
    cost,                \* _dtw_match: local cost matrix
    predecessor,         \* _dtw_match: local predecessor matrix
    px,                  \* _dtw_match: local x of the backtracking loop
    py,                  \* _dtw_match: local y of the backtracking loop
    result,              \* _dtw_match: local result list
    dm,                  \* _dist_matrix: local dm
    ret                  \* what the call returned or raised

vars == <<n_neighbors, max_warping_window, subsample_step, fitted, x, l,
          op, pc, args, cost, predecessor, px, py, result, dm, ret>>

config == <<n_neighbors, max_warping_window, subsample_step>>
training == <<fitted, x, l>>

----------------------------------------------------------------------------
(* Bounds of the model and constants of the program.                       *)

\* longest series the DTW calls are given
MaxLen == 3
\* observations
Values == {0, 1, 2}
\* largest n_neighbors the classifier is constructed with
MaxK == 3
\* most training series, and most labels, handed to fit
MaxTrain == 3
\* most query series handed to predict
MaxQuery == 1

\* __init__ defaults
DefaultNeighbors == 10
DefaultWindow == 10000

\* sys.maxint * np.ones((M, N)) is a float64 matrix of 2^63.  TLC's integers
\* are 32 bits wide, so the sentinel is scaled down to 2^30; every cost a
\* fill can accumulate here is below (2*MaxLen) * 2 and stays far from it.
MaxInt == 1073741824

Series == UNION {[1..n -> Values] : n \in 1..MaxLen}
\* the windows tried: every one that can cut a cell off, and the default
Windows == (0..(MaxLen - 1)) \cup {DefaultWindow}

Max(p, q) == IF p >= q THEN p ELSE q
Min(p, q) == IF p <= q THEN p ELSE q
Abs(v) == IF v >= 0 THEN v ELSE -v

\* the pointwise distance d, left at its default
\* lambda x,y: np.linalg.norm(x-y), on scalar observations
D(u, v) == Abs(u - v)

\* float64 addition cost + d(...): at the sentinel's magnitude a small
\* addend is absorbed by rounding
FAdd(c, v) == IF c >= MaxInt THEN c ELSE c + v

\* min(choices)
Min3(p, q, r) == Min(p, Min(q, r))

----------------------------------------------------------------------------
(* _dtw_distance                                                           *)

\* (variant: the matrix starts at zero instead of the sentinel)
ZeroCost(M, N) == [i \in 0..(M - 1) |-> [j \in 0..(N - 1) |-> 0]]

\* cost = sys.maxint * np.ones((M, N))
NewCost(M, N) == [i \in 0..(M - 1) |-> [j \in 0..(N - 1) |-> MaxInt]]

\* for i in xrange(1, M): cost[i, 0] = cost[i-1, 0] + d(ts_a[i], ts_b[0])
RECURSIVE FirstColumn(_, _, _, _)
FirstColumn(c, ts_a, ts_b, i) ==
    IF i >= Len(ts_a) THEN c
    ELSE FirstColumn([c EXCEPT ![i][0] = FAdd(c[i - 1][0], D(ts_a[i + 1], ts_b[1]))],
                     ts_a, ts_b, i + 1)

\* for j in xrange(1, N): cost[0, j] = cost[0, j-1] + d(ts_a[0], ts_b[j])
RECURSIVE FirstRow(_, _, _, _)
FirstRow(c, ts_a, ts_b, j) ==
    IF j >= Len(ts_b) THEN c
    ELSE FirstRow([c EXCEPT ![0][j] = FAdd(c[0][j - 1], D(ts_a[1], ts_b[j + 1]))],
                  ts_a, ts_b, j + 1)

\* the bounds of the inner xrange of the fill
WindowLo(i, W) == Max(1, i - W)
WindowHi(i, N, W) == Min(N, i + W)

\* (variant: the diagonal predecessor is left out of the choices)
CellNoDiagonal(c, ts_a, ts_b, i, j) ==
    [c EXCEPT ![i][j] = FAdd(Min(c[i][j - 1], c[i - 1][j]), D(ts_a[i + 1], ts_b[j + 1]))]

\* choices = cost[i-1, j-1], cost[i, j-1], cost[i-1, j]
\* cost[i, j] = min(choices) + d(ts_a[i], ts_b[j])
Cell(c, ts_a, ts_b, i, j) ==
    [c EXCEPT ![i][j] = FAdd(Min3(c[i - 1][j - 1], c[i][j - 1], c[i - 1][j]),
                             D(ts_a[i + 1], ts_b[j + 1]))]

\* for j in xrange(max(1, i - W), min(N, i + W)): ...
RECURSIVE FillRow(_, _, _, _, _, _)
FillRow(c, ts_a, ts_b, i, j, hi) ==
    IF j >= hi THEN c
    ELSE FillRow(Cell(c, ts_a, ts_b, i, j), ts_a, ts_b, i, j + 1, hi)

\* for i in xrange(1, M): ...
RECURSIVE Fill(_, _, _, _, _)
Fill(c, ts_a, ts_b, W, i) ==
    IF i >= Len(ts_a) THEN c
    ELSE Fill(FillRow(c, ts_a, ts_b, i, WindowLo(i, W), WindowHi(i, Len(ts_b), W)),
              ts_a, ts_b, W, i + 1)

\* the cost matrix _dtw_distance has built when it returns
DistanceCost(ts_a, ts_b, W) ==
    LET M == Len(ts_a)
        N == Len(ts_b)
        c0 == [NewCost(M, N) EXCEPT ![0][0] = D(ts_a[1], ts_b[1])]
        c1 == FirstColumn(c0, ts_a, ts_b, 1)
        c2 == FirstRow(c1, ts_a, ts_b, 1)
    IN  Fill(c2, ts_a, ts_b, W, 1)

\* return cost[-1, -1]
DtwDistance(ts_a, ts_b, W) ==
    DistanceCost(ts_a, ts_b, W)[Len(ts_a) - 1][Len(ts_b) - 1]

----------------------------------------------------------------------------
(* _dtw_match                                                              *)

\* predecessor = np.zeros((M, N))
NewPredecessor(M, N) == [i \in 0..(M - 1) |-> [j \in 0..(N - 1) |-> 0]]

\* first column of _dtw_match: cost as above, predecessor[i, 0] = -1
RECURSIVE MatchFirstColumn(_, _, _, _)
MatchFirstColumn(cp, ts_a, ts_b, i) ==
    IF i >= Len(ts_a) THEN cp
    ELSE MatchFirstColumn(
            [cost |-> [cp.cost EXCEPT ![i][0] =
                          FAdd(cp.cost[i - 1][0], D(ts_a[i + 1], ts_b[1]))],
             predecessor |-> [cp.predecessor EXCEPT ![i][0] = -1]],
            ts_a, ts_b, i + 1)

\* (variant: the first row's predecessor is never recorded)
RECURSIVE FirstRowNoPredecessor(_, _, _, _)
FirstRowNoPredecessor(cp, ts_a, ts_b, j) ==
    IF j >= Len(ts_b) THEN cp
    ELSE FirstRowNoPredecessor(
            [cost |-> [cp.cost EXCEPT ![0][j] =
                          FAdd(cp.cost[0][j - 1], D(ts_a[1], ts_b[j + 1]))],
             predecessor |-> cp.predecessor],
            ts_a, ts_b, j + 1)

\* first row of _dtw_match: cost as above, predecessor[0, j] = 1
RECURSIVE MatchFirstRow(_, _, _, _)
MatchFirstRow(cp, ts_a, ts_b, j) ==
    IF j >= Len(ts_b) THEN cp
    ELSE MatchFirstRow(
            [cost |-> [cp.cost EXCEPT ![0][j] =
                          FAdd(cp.cost[0][j - 1], D(ts_a[1], ts_b[j + 1]))],
             predecessor |-> [cp.predecessor EXCEPT ![0][j] = 1]],
            ts_a, ts_b, j + 1)

\* (variant: the else branch records "left" where the cost came from "up")
MatchCellUpAsLeft(cp, ts_a, ts_b, i, j) ==
    LET c == cp.cost
        dist == D(ts_a[i + 1], ts_b[j + 1])
    IN  IF c[i - 1][j - 1] <= c[i][j - 1] /\ c[i - 1][j - 1] <= c[i - 1][j]
        THEN [cost |-> [c EXCEPT ![i][j] = FAdd(c[i - 1][j - 1], dist)],
              predecessor |-> [cp.predecessor EXCEPT ![i][j] = 0]]
        ELSE IF c[i][j - 1] <= c[i - 1][j - 1] /\ c[i][j - 1] <= c[i - 1][j]
        THEN [cost |-> [c EXCEPT ![i][j] = FAdd(c[i][j - 1], dist)],
              predecessor |-> [cp.predecessor EXCEPT ![i][j] = 1]]
        ELSE [cost |-> [c EXCEPT ![i][j] = FAdd(c[i - 1][j], dist)],
              predecessor |-> [cp.predecessor EXCEPT ![i][j] = 1]]

\* the if / elif / else of the fill: diagonal first, then left, then up
MatchCell(cp, ts_a, ts_b, i, j) ==
    LET c == cp.cost
        dist == D(ts_a[i + 1], ts_b[j + 1])
    IN  IF c[i - 1][j - 1] <= c[i][j - 1] /\ c[i - 1][j - 1] <= c[i - 1][j]
        THEN [cost |-> [c EXCEPT ![i][j] = FAdd(c[i - 1][j - 1], dist)],
              predecessor |-> [cp.predecessor EXCEPT ![i][j] = 0]]
        ELSE IF c[i][j - 1] <= c[i - 1][j - 1] /\ c[i][j - 1] <= c[i - 1][j]
        THEN [cost |-> [c EXCEPT ![i][j] = FAdd(c[i][j - 1], dist)],
              predecessor |-> [cp.predecessor EXCEPT ![i][j] = 1]]
        ELSE [cost |-> [c EXCEPT ![i][j] = FAdd(c[i - 1][j], dist)],
              predecessor |-> [cp.predecessor EXCEPT ![i][j] = -1]]

RECURSIVE MatchFillRow(_, _, _, _, _, _)
MatchFillRow(cp, ts_a, ts_b, i, j, hi) ==
    IF j >= hi THEN cp
    ELSE MatchFillRow(MatchCell(cp, ts_a, ts_b, i, j), ts_a, ts_b, i, j + 1, hi)

RECURSIVE MatchFill(_, _, _, _, _)
MatchFill(cp, ts_a, ts_b, W, i) ==
    IF i >= Len(ts_a) THEN cp
    ELSE MatchFill(MatchFillRow(cp, ts_a, ts_b, i,
                                WindowLo(i, W), WindowHi(i, Len(ts_b), W)),
                   ts_a, ts_b, W, i + 1)

\* cost and predecessor when _dtw_match reaches its backtracking loop
MatchMatrices(ts_a, ts_b, W) ==
    LET M == Len(ts_a)
        N == Len(ts_b)
        cp0 == [cost |-> [NewCost(M, N) EXCEPT ![0][0] = D(ts_a[1], ts_b[1])],
                predecessor |-> NewPredecessor(M, N)]
        cp1 == MatchFirstColumn(cp0, ts_a, ts_b, 1)
        cp2 == MatchFirstRow(cp1, ts_a, ts_b, 1)
    IN  MatchFill(cp2, ts_a, ts_b, W, 1)

----------------------------------------------------------------------------------------------------------------------------------------
(* _dist_matrix                                                            *)

\* s[::step]
Subsample(s, step) ==
    [k \in 1..((Len(s) + step - 1) \div step) |-> s[(k - 1) * step + 1]]

\* the pairs (i, j) of the same-set loops, in the order the loops visit them
RECURSIVE CondensedPairs(_, _, _)
CondensedPairs(n, i, j) ==
    IF i >= n - 1 THEN <<>>
    ELSE IF j >= n THEN CondensedPairs(n, i + 1, i + 2)
    ELSE <<<<i, j>>>> \o CondensedPairs(n, i, j + 1)

\* dm[dm_count] = self._dtw_distance(x[i][::step], y[j][::step]) over the
\* pairs; dm_count is set to 0 before the loops and never incremented
RECURSIVE CondensedFill(_, _, _, _, _, _, _)
CondensedFill(v, dm_count, p, q, W, step, pairs) ==
    IF pairs = <<>> THEN v
    ELSE LET i == pairs[1][1]
             j == pairs[1][2]
         IN  CondensedFill(
                [v EXCEPT ![dm_count] =
                    DtwDistance(Subsample(p[i + 1], step), Subsample(q[j + 1], step), W)],
                dm_count, p, q, W, step, Tail(pairs))

\* the same-set branch up to the call of squareform:
\* dm = np.zeros((n * (n - 1)) // 2), then the loops
Condensed(p, q, W, step) ==
    LET n == Len(p)
        size == (n * (n - 1)) \div 2
    IN  CondensedFill([k \in 0..(size - 1) |-> 0], 0, p, q, W, step,
                      CondensedPairs(n, 0, 1))

\* the else branch: dm[i, j] = self._dtw_distance(x[i][::step], y[j][::step])
FullMatrix(p, q, W, step) ==
    [i \in 0..(Len(p) - 1) |-> [j \in 0..(Len(q) - 1) |->
        DtwDistance(Subsample(p[i + 1], step), Subsample(q[j + 1], step), W)]]

\* _dist_matrix(p, q): what it raises, what it returns, and its local dm.
\* squareform is bound nowhere in the module (no import, no definition),
\* so the same-set branch raises NameError when it reaches the call.
\* np.array_equal(x, y) is equality of the two sets of series.
DistMatrix(p, q, W, step) ==
    IF p = q
    THEN [raised |-> "NameError", value |-> <<>>, dm |-> Condensed(p, q, W, step)]
    ELSE LET m == FullMatrix(p, q, W, step)
         IN  [raised |-> "none", value |-> m, dm |-> m]

----------------------------------------------------------------------------
(* predict                                                                 *)

Labels == {1, 2}

\* the permutations of the columns 0..n-1
ColumnOrders(n) ==
    {p \in [0..(n - 1) -> 0..(n - 1)] : \A u, v \in 0..(n - 1) : u # v => p[u] # p[v]}

\* the orders dm.argsort() can give a row: every permutation of the columns
\* that is ascending in distance (the default sort kind is not stable, so
\* the order among equal distances is the library's choice)
ArgSorts(row, n) ==
    {p \in ColumnOrders(n) : \A u, v \in 0..(n - 1) : u < v => row[p[u]] <= row[p[v]]}

\* how many of the k labels equal v
CountOf(labs, k, v) == Cardinality({u \in 0..(k - 1) : labs[u] = v})

\* scipy.stats.mode over one row: the smallest of the most frequent values
ModeLabel(labs, k) ==
    LET best == CHOOSE v \in {labs[u] : u \in 0..(k - 1)} :
                    \A w \in {labs[u] : u \in 0..(k - 1)} :
                        \/ CountOf(labs, k, v) > CountOf(labs, k, w)
                        \/ (CountOf(labs, k, v) = CountOf(labs, k, w) /\ v <= w)
    IN  best

ModeCount(labs, k) == CountOf(labs, k, ModeLabel(labs, k))

\* mode_data[1] / self.n_neighbors as a fraction <<numerator, denominator>>.
\* The module has no "from __future__ import division": when scipy.stats.mode
\* returns its counts as integers the Python 2 "/" floors, and when it
\* returns them as floats (its older releases) the division is exact.  Which
\* one runs depends on the installed scipy, so dtype is the caller's choice.
Proba(count, k, dtype) ==
    IF dtype = "int" THEN <<count \div k, 1>> ELSE <<count, k>>

----------------------------------------------------------------------------
(* The calls.                                                              *)

NoReturn == [raised |-> "none", value |-> <<>>, proba |-> <<>>]

\* the series the classifier is given
KnnSeries == {<<0>>, <<1, 2>>}
TrainSets == UNION {[1..n -> KnnSeries] : n \in 1..MaxTrain}
LabelSeqs == UNION {[1..n -> Labels] : n \in 1..MaxTrain}
QuerySets == UNION {[1..n -> KnnSeries] : n \in 1..MaxQuery}

\* the caller's data for the DTW engine: a pair of series
DtwArgs ==
    [ts_a : Series, ts_b : Series, x : {<<>>}, l : {<<>>}, y : {<<>>}]

\* the caller's data for the classifier: training series, labels, queries
\* (the queries may be the training set itself)
KnnArgs ==
    {[ts_a |-> <<>>, ts_b |-> <<>>, x |-> tx, l |-> tl, y |-> qy] :
        tx \in TrainSets, tl \in LabelSeqs, qy \in QuerySets}
    \cup
    {[ts_a |-> <<>>, ts_b |-> <<>>, x |-> tx, l |-> tl, y |-> tx] :
        tx \in TrainSets, tl \in LabelSeqs}

\* the frame of a freshly constructed instance
Fresh ==
    /\ fitted = FALSE
    /\ x = <<>>
    /\ l = <<>>
    /\ op = "__init__"
    /\ pc = "done"
    /\ cost = <<>>
    /\ predecessor = <<>>
    /\ px = 0
    /\ py = 0
    /\ result = <<>>
    /\ dm = <<>>
    /\ ret = NoReturn

\* __init__(n_neighbors, max_warping_window, subsample_step), and the data
\* the caller will hand to the DTW methods
InitDtw ==
    /\ n_neighbors = DefaultNeighbors
    /\ max_warping_window \in Windows
    /\ subsample_step = 1
    /\ args \in DtwArgs
    /\ Fresh

\* __init__(...), and the data the caller will hand to fit and predict
InitKnn ==
    /\ n_neighbors \in 1..MaxK
    /\ max_warping_window = DefaultWindow
    /\ subsample_step \in {1, 2}
    /\ args \in KnnArgs
    /\ Fresh

Init == InitDtw \/ InitKnn

\* a call of _dtw_distance(ts_a, ts_b); ts_a[0] of an empty series
\* raises IndexError
DtwDistanceCall ==
    /\ pc = "done"
    /\ op' = "_dtw_distance"
    /\ ret' = IF args.ts_a = <<>> \/ args.ts_b = <<>>
              THEN [NoReturn EXCEPT !.raised = "IndexError"]
              ELSE [NoReturn EXCEPT !.value =
                        DtwDistance(args.ts_a, args.ts_b, max_warping_window)]
    /\ cost' = <<>>
    /\ predecessor' = <<>>
    /\ px' = 0
    /\ py' = 0
    /\ result' = <<>>
    /\ dm' = <<>>
    /\ UNCHANGED <<config, training, pc, args>>

\* a call of _dtw_match(ts_a, ts_b), up to the head of its while loop
DtwMatchCall ==
    /\ pc = "done"
    /\ args.ts_a # <<>> /\ args.ts_b # <<>>
    /\ \E cp \in {MatchMatrices(args.ts_a, args.ts_b, max_warping_window)} :
        /\ cost' = cp.cost
        /\ predecessor' = cp.predecessor
    /\ op' = "_dtw_match"
    /\ pc' = "loop"
    /\ px' = Len(args.ts_a) - 1
    /\ py' = Len(args.ts_b) - 1
    /\ result' = <<>>
    /\ dm' = <<>>
    /\ ret' = NoReturn
    /\ UNCHANGED <<config, training, args>>

\* a call of _dtw_match on an empty series: ts_a[0] raises IndexError
DtwMatchRaise ==
    /\ pc = "done"
    /\ args.ts_a = <<>> \/ args.ts_b = <<>>
    /\ op' = "_dtw_match"
    /\ ret' = [NoReturn EXCEPT !.raised = "IndexError"]
    /\ cost' = <<>>
    /\ predecessor' = <<>>
    /\ px' = 0
    /\ py' = 0
    /\ result' = <<>>
    /\ dm' = <<>>
    /\ UNCHANGED <<config, training, pc, args>>

\* one iteration of: while x != 0 or y != 0
BacktrackStep ==
    /\ op = "_dtw_match"
    /\ pc = "loop"
    /\ px # 0 \/ py # 0
    /\ result' = <<<<px, py>>>> \o result
    /\ IF predecessor[px][py] = 1
       THEN px' = px /\ py' = py - 1
       ELSE IF predecessor[px][py] = -1
       THEN px' = px - 1 /\ py' = py
       ELSE px' = px - 1 /\ py' = py - 1
    /\ UNCHANGED <<config, training, op, pc, args, cost, predecessor, dm, ret>>

\* the loop exit: result = [(0, 0)] + result; return result
DtwMatchReturn ==
    /\ op = "_dtw_match"
    /\ pc = "loop"
    /\ px = 0 /\ py = 0
    /\ result' = <<<<0, 0>>>> \o result
    /\ ret' = [NoReturn EXCEPT !.value = <<<<0, 0>>>> \o result]
    /\ pc' = "done"
    /\ UNCHANGED <<config, training, op, args, cost, predecessor, px, py, dm>>

ClearMatchFrame ==
    /\ cost' = <<>>
    /\ predecessor' = <<>>
    /\ px' = 0
    /\ py' = 0
    /\ result' = <<>>

\* fit(x, l): self.x = np.array(x); self.l = np.array(l)
Fit ==
    /\ pc = "done"
    /\ op' = "fit"
    /\ fitted' = TRUE
    /\ x' = args.x
    /\ l' = args.l
    /\ ret' = NoReturn
    /\ dm' = <<>>
    /\ ClearMatchFrame
    /\ UNCHANGED <<config, pc, args>>

\* a call of _dist_matrix(p, q) on two of the caller's sets
DistMatrixCall ==
    \E p \in {args.x, args.y}, q \in {args.x, args.y} :
      \E r \in {DistMatrix(p, q, max_warping_window, subsample_step)} :
        /\ pc = "done"
        /\ op' = "_dist_matrix"
        /\ dm' = [p |-> p, q |-> q, dm |-> r.dm]
        /\ ret' = [NoReturn EXCEPT !.raised = r.raised, !.value = r.value]
        /\ ClearMatchFrame
        /\ UNCHANGED <<config, training, pc, args>>

\* predict(y) before any fit: self.x is not bound
PredictUnfitted ==
    /\ pc = "done"
    /\ ~fitted
    /\ op' = "predict"
    /\ ret' = [NoReturn EXCEPT !.raised = "AttributeError"]
    /\ dm' = <<>>
    /\ ClearMatchFrame
    /\ UNCHANGED <<config, training, pc, args>>

\* predict(y) whose _dist_matrix(y, self.x) raises
PredictRaise ==
    /\ pc = "done"
    /\ fitted
    /\ \E r \in {DistMatrix(args.y, x, max_warping_window, subsample_step)} :
        /\ r.raised # "none"
        /\ ret' = [NoReturn EXCEPT !.raised = r.raised]
        /\ dm' = [p |-> args.y, q |-> x, dm |-> r.dm]
    /\ op' = "predict"
    /\ ClearMatchFrame
    /\ UNCHANGED <<config, training, pc, args>>

\* knn_labels = self.l[knn_idx] and the vote over it, for one dm.argsort()
\* and one dtype of the counts
Vote(knn_idx, rows, k, dtype) ==
    IF \E i \in rows, u \in 0..(k - 1) : knn_idx[i][u] >= Len(l)
    THEN \* the index is past the labels
         [NoReturn EXCEPT !.raised = "IndexError"]
    ELSE LET knn_labels == [i \in rows |-> [u \in 0..(k - 1) |-> l[knn_idx[i][u] + 1]]]
         IN  [raised |-> "none",
              value |-> [i \in rows |-> ModeLabel(knn_labels[i], k)],
              proba |-> [i \in rows |->
                            Proba(ModeCount(knn_labels[i], k), n_neighbors, dtype)]]

\* predict(y) past _dist_matrix
Predict ==
    /\ pc = "done"
    /\ fitted
    /\ \E r \in {DistMatrix(args.y, x, max_warping_window, subsample_step)} :
        /\ r.raised = "none"
        /\ LET rows == 0..(Len(args.y) - 1)
               n_col == Len(x)
               k == Min(n_col, n_neighbors)
           IN  \E sorted \in [rows -> ColumnOrders(n_col)], dtype \in {"int", "float"} :
                   /\ \A i \in rows : sorted[i] \in ArgSorts(r.value[i], n_col)
                   /\ \E knn_idx \in {[i \in rows |-> [u \in 0..(k - 1) |-> sorted[i][u]]]} :
                       /\ ret' = Vote(knn_idx, rows, k, dtype)
                       /\ dm' = [p |-> args.y, q |-> x, dm |-> r.dm, knn_idx |-> knn_idx]
    /\ op' = "predict"
    /\ ClearMatchFrame
    /\ UNCHANGED <<config, training, pc, args>>

NextDtw == DtwDistanceCall \/ DtwMatchCall \/ BacktrackStep \/ DtwMatchReturn

NextKnn == Fit \/ DistMatrixCall \/ PredictUnfitted \/ PredictRaise \/ Predict

Next == NextDtw \/ DtwMatchRaise \/ NextKnn

\* every method on every instance
Spec == Init /\ [][Next]_vars

\* the DTW engine: an instance given a pair of series
SpecDtw == InitDtw /\ [][NextDtw]_vars

\* the classifier: an instance given training series, labels and queries
SpecKnn == InitKnn /\ [][NextKnn]_vars

----------------------------------------------------------------------------
(* Properties.                                                             *)

M == Len(args.ts_a)
N == Len(args.ts_b)

\* the window reaches every cell: W >= max(M, N)
Unbounded == max_warping_window >= Max(M, N)

\* the steps a warping path may take
Steps == {<<0, 1>>, <<1, 0>>, <<1, 1>>}

\* every warping path from (0,0) to (i,j)
RECURSIVE PathsTo(_, _)
PathsTo(i, j) ==
    IF i = 0 /\ j = 0 THEN {<<<<0, 0>>>>}
    ELSE LET before == {<<i - s[1], j - s[2]>> : s \in Steps}
             inside == {c \in before : c[1] >= 0 /\ c[2] >= 0}
         IN  UNION {{Append(p, <<i, j>>) : p \in PathsTo(c[1], c[2])} : c \in inside}

WarpingPaths == [m \in 1..MaxLen, n \in 1..MaxLen |-> PathsTo(m - 1, n - 1)]

\* the sum of d(a[i], b[j]) over the cells of a path
RECURSIVE PathCost(_, _, _)
PathCost(p, a, b) ==
    IF p = <<>> THEN 0
    ELSE D(a[p[1][1] + 1], b[p[1][2] + 1]) + PathCost(Tail(p), a, b)

Least(S) == CHOOSE v \in S : \A w \in S : v <= w

\* the cells the boundary pass or the windowed fill writes
Written(i, j, n, W) ==
    i = 0 \/ j = 0 \/ (WindowLo(i, W) <= j /\ j < WindowHi(i, n, W))

DistanceReturned == op = "_dtw_distance" /\ ret.raised = "none"
MatchReturned == op = "_dtw_match" /\ pc = "done"

\* C1: with an unbounded window _dtw_distance returns the least, over all
\* warping paths from (0,0) to (M-1,N-1), of the summed pointwise distance;
\* [0,1,2] against [0,1,2] gives 0 and [0,2] against [0,1,2] gives 1.
C1_MinimalWarpingCost ==
    (DistanceReturned /\ Unbounded) =>
        /\ ret.value =
              Least({PathCost(p, args.ts_a, args.ts_b) : p \in WarpingPaths[M, N]})
        /\ (args.ts_a = <<0, 1, 2>> /\ args.ts_b = <<0, 1, 2>>) => ret.value = 0
        /\ (args.ts_a = <<0, 2>> /\ args.ts_b = <<0, 1, 2>>) => ret.value = 1

C1_Witness ==
    /\ DistanceReturned /\ Unbounded
    /\ args.ts_a = <<0, 2>> /\ args.ts_b = <<0, 1, 2>>
    /\ ret.value = 1

\* C2: _dtw_distance(a, b) equals _dtw_distance(b, a) for every window
\* W >= 0 (the default metric is symmetric).
C2_Symmetry ==
    DistanceReturned =>
        ret.value = DtwDistance(args.ts_b, args.ts_a, max_warping_window)

\* C3: the backtracking loop of _dtw_match never holds a negative row or
\* column, runs at most M+N-2 iterations (the cells it has collected never
\* outnumber the rows and columns it has left behind), and the list it
\* returns starts at (0,0), ends at (M-1,N-1), moves by (0,1), (1,0) or
\* (1,1) at every step and has between max(M,N) and M+N-1 elements.
C3_PathValidity ==
    /\ (op = "_dtw_match" /\ pc = "loop") =>
          /\ px \in 0..(M - 1)
          /\ py \in 0..(N - 1)
          /\ Len(result) <= (M - 1 - px) + (N - 1 - py)
          /\ Len(result) >= Max(M - 1 - px, N - 1 - py)
    /\ MatchReturned =>
          LET path == ret.value IN
          /\ path[1] = <<0, 0>>
          /\ path[Len(path)] = <<M - 1, N - 1>>
          /\ \A k \in 1..(Len(path) - 1) :
                <<path[k + 1][1] - path[k][1], path[k + 1][2] - path[k][2]>> \in Steps
          /\ Len(path) >= Max(M, N)
          /\ Len(path) <= M + N - 1

\* a path through cells a narrow window never wrote
C3_Witness ==
    /\ MatchReturned
    /\ max_warping_window = 0
    /\ M = 3 /\ N = 2
    /\ Len(ret.value) = 3

\* C4: with an unbounded window the pointwise distances along the path of
\* _dtw_match sum to the value of _dtw_distance, and every cell of the fill
\* records the diagonal when it is least, else the left when it is least,
\* else the cell above.
C4_PathOptimality ==
    (MatchReturned /\ Unbounded) =>
        /\ PathCost(ret.value, args.ts_a, args.ts_b) =
              DtwDistance(args.ts_a, args.ts_b, max_warping_window)
        /\ \A i \in 1..(M - 1), j \in 1..(N - 1) :
              LET diag == cost[i - 1][j - 1]
                  left == cost[i][j - 1]
                  up == cost[i - 1][j]
              IN  /\ predecessor[i][j] = 0 <=> (diag <= left /\ diag <= up)
                  /\ predecessor[i][j] = 1 <=> (left < diag /\ left <= up)
                  /\ predecessor[i][j] = -1 <=> (up < diag /\ up < left)

\* a path that steps up from a cell whose left and diagonal cost more
C4_Witness ==
    /\ MatchReturned /\ Unbounded
    /\ \E k \in 1..(Len(ret.value) - 1) :
          /\ ret.value[k + 1][1] = ret.value[k][1] + 1
          /\ ret.value[k + 1][2] = ret.value[k][2]
          /\ ret.value[k][2] > 0
    /\ \E i \in 1..(M - 1), j \in 1..(N - 1) :
          cost[i - 1][j - 1] = cost[i][j - 1] /\ predecessor[i][j] = 0

\* C5: _dtw_distance(a, a) is 0 for every window W >= 0 (the default metric
\* is zero on equal observations).
C5_SelfDistanceZero ==
    (DistanceReturned /\ args.ts_a = args.ts_b) => ret.value = 0

\* C6: a wider window never increases the value _dtw_distance returns
\* (an end cell the fill never wrote is returned as the sentinel).
C6_WindowMonotone ==
    DistanceReturned =>
        \A W2 \in Windows :
            W2 > max_warping_window =>
                ret.value >= DtwDistance(args.ts_a, args.ts_b, W2)

\* a wider window that strictly lowers a value that was not the sentinel
C6_Witness ==
    /\ DistanceReturned
    /\ ret.value < MaxInt
    /\ \E W2 \in Windows :
          /\ W2 > max_warping_window
          /\ ret.value > DtwDistance(args.ts_a, args.ts_b, W2)

\* C10: every cell of the path _dtw_match returns was written by the
\* boundary pass or the windowed fill and does not hold the sentinel.
C10_PathAvoidsUnreached ==
    MatchReturned =>
        \A k \in 1..Len(ret.value) :
            /\ Written(ret.value[k][1], ret.value[k][2], N, max_warping_window)
            /\ cost[ret.value[k][1]][ret.value[k][2]] < MaxInt

\* C7: _dist_matrix(x, y) with y value-equal to x and stride 1 returns the
\* n-by-n matrix with zero diagonal and D[i][j] = D[j][i] =
\* _dtw_distance(x[i], x[j]), each condensed entry holding its own pair.
C7_SameSetMatrix ==
    (op = "_dist_matrix" /\ dm.p = dm.q /\ subsample_step = 1) =>
        LET n == Len(dm.p)
            pairs == CondensedPairs(n, 0, 1)
            dist(i, j) == DtwDistance(dm.p[i + 1], dm.p[j + 1], max_warping_window)
        IN  /\ \A k \in 1..Len(pairs) : dm.dm[k - 1] = dist(pairs[k][1], pairs[k][2])
            /\ ret.raised = "none"
            /\ \A i \in 0..(n - 1) : ret.value[i][i] = 0
            /\ \A i \in 0..(n - 1), j \in 0..(n - 1) :
                  i < j => (ret.value[i][j] = dist(i, j) /\ ret.value[j][i] = dist(i, j))

\* C8: for each query row predict selects the k_eff = min(n_neighbors,
\* number of training series) nearest training indices, returns the most
\* frequent label among them and, as confidence, exactly that label's count
\* divided by n_neighbors.  (Stated for a fitted instance whose training
\* set has one label per series and queries other than the training set.)
C8_KnnVote ==
    (op = "predict" /\ fitted /\ Len(l) = Len(x) /\ args.y # x) =>
        LET k_eff == Min(n_neighbors, Len(x))
            count(i, v) == Cardinality({u \in 0..(k_eff - 1) : l[dm.knn_idx[i][u] + 1] = v})
        IN  /\ ret.raised = "none"
            /\ \A i \in 0..(Len(args.y) - 1) :
                  /\ \A u \in 0..(k_eff - 1), v \in 0..(Len(x) - 1) :
                        (\A w \in 0..(k_eff - 1) : dm.knn_idx[i][w] # v)
                            => dm.dm[i][dm.knn_idx[i][u]] <= dm.dm[i][v]
                  /\ \A v \in Labels : count(i, ret.value[i]) >= count(i, v)
                  /\ ret.proba[i][1] * n_neighbors = count(i, ret.value[i]) * ret.proba[i][2]

\* C9: fit(x, l) with a number of labels other than the number of series
\* fails with ShapeMismatch and leaves the stored training set and labels
\* as they were.
C9_FitRejectsMismatch ==
    [][(op' = "fit" /\ Len(args'.x) # Len(args'.l)) =>
          (ret'.raised = "ShapeMismatch" /\ fitted' = fitted /\ x' = x /\ l' = l)]_vars

====
